---- MODULE Spec2Model ----
(***************************************************************************)
(* Model of NasEnv (metanas/env/core.py): the gym environment in which an  *)
(* RL agent walks the edges of a DARTS cell and raises or lowers the       *)
(* operation weights (alphas) of the edge it stands on.                    *)
(*                                                                         *)
(* Numbers.  The code computes in floating point; the model computes in    *)
(* exact rationals <<n, d>> (d > 0, lowest terms), so a comparison such as *)
(* curr_op + prob < 1.0 is decided exactly.                                *)
(*                                                                         *)
(* Raw weights.  A raw weight w is represented by e^w, a non-negative      *)
(* rational (0 stands for a weight so low that its softmax underflows to   *)
(* 0.0).  Under this representation softmax(w)_i = e^w_i / SUM_j e^w_j and *)
(* _inverse_softmax(x, C) = ln(x) + C is e^C * x = 10 * x.                 *)
(***************************************************************************)
EXTENDS Integers, Sequences, FiniteSets, TLC

VARIABLES
    cell_type,          \* self.cell_type: "normal" or "reduce"
    test_env,           \* self.test_env: "None", "False" or "True"
    current_task,       \* self.current_task: "None" or "task"
    meta_state,         \* self.meta_state: "unset" until set_task, then a state dict
    alpha_normal,       \* meta_model.alpha_normal: raw weights, by <<row, edge>>
    alpha_reduce,       \* meta_model.alpha_reduce
    normalized_alphas,  \* self.normalized_alphas, by <<row, edge>>
    states,             \* self.states: the state table (1-based sequence)
    edge_to_index,      \* self.edge_to_index: <<from, to>> -> 0-based table index
    edge_to_alpha,      \* self.edge_to_alpha: <<from, to>> -> <<row, edge>>
    current_state,      \* self.current_state: a row of a state table
    current_state_index,\* self.current_state_index
    step_count,         \* self.step_count
    terminate_episode,  \* self.terminate_episode
    baseline_acc,       \* self.baseline_acc
    max_acc,            \* self.max_acc
    max_alphas,         \* self.max_alphas: what its rows are (see NoMaxAlphas)
    calls,              \* ghost: step and mutation calls since the weights
                        \* were last loaded
    call,               \* the last call made on the environment and what it returned
    fn_in,              \* input of the function applied in SpecOps / SpecScale
    fn_out              \* its result

vars == <<cell_type, test_env, current_task, meta_state, alpha_normal,
          alpha_reduce, normalized_alphas, states, edge_to_index,
          edge_to_alpha, current_state, current_state_index, step_count,
          terminate_episode, baseline_acc, max_acc, max_alphas, calls, call,
          fn_in, fn_out>>

env_vars == <<cell_type, test_env, current_task, meta_state, alpha_normal,
              alpha_reduce, normalized_alphas, states, edge_to_index,
              edge_to_alpha, current_state, current_state_index, step_count,
              terminate_episode, baseline_acc, max_acc, max_alphas, calls,
              call>>

----------------------------------------------------------------------------
(* Bounds of the model *)

\* config.nodes: intermediate nodes of the cell (n_nodes = Nodes + 2)
Nodes == 1
\* len(config.primitives)
NOps == 2
\* max_ep_len given to the constructor
max_ep_len == 1

----------------------------------------------------------------------------
(* Exact rational arithmetic *)

Abs(x) == IF x < 0 THEN -x ELSE x

RECURSIVE GCD(_, _)
GCD(a, b) == IF b = 0 THEN a ELSE GCD(b, a % b)

Rat(n, d) == IF n = 0 THEN <<0, 1>>
             ELSE LET g == GCD(Abs(n), d) IN <<n \div g, d \div g>>

Zero == <<0, 1>>
One == <<1, 1>>

RAdd(a, b) == LET g == GCD(a[2], b[2])
                  l == (a[2] \div g) * b[2]
              IN Rat(a[1] * (l \div a[2]) + b[1] * (l \div b[2]), l)

RNeg(a) == <<-a[1], a[2]>>

RSub(a, b) == RAdd(a, RNeg(b))

RMul(a, b) == LET g1 == GCD(Abs(a[1]), b[2])
                  g2 == GCD(Abs(b[1]), a[2])
              IN Rat((a[1] \div g1) * (b[1] \div g2),
                     (a[2] \div g2) * (b[2] \div g1))

\* b # 0
RDiv(a, b) == RMul(a, IF b[1] > 0 THEN <<b[2], b[1]>> ELSE <<-b[2], -b[1]>>)

\* an/ad < bn/bd for an, bn >= 0 and ad, bd > 0, by comparing the continued
\* fractions (no product of a numerator and a denominator is formed)
RECURSIVE FracLt(_, _, _, _)
FracLt(an, ad, bn, bd) ==
    IF an \div ad # bn \div bd THEN an \div ad < bn \div bd
    ELSE IF bn % bd = 0 THEN FALSE
    ELSE IF an % ad = 0 THEN TRUE
    ELSE FracLt(bd, bn % bd, ad, an % ad)

RLt(a, b) ==
    IF a[1] < 0 /\ b[1] >= 0 THEN TRUE
    ELSE IF a[1] >= 0 /\ b[1] < 0 THEN FALSE
    ELSE IF a[1] < 0 THEN FracLt(-b[1], b[2], -a[1], a[2])
    ELSE FracLt(a[1], a[2], b[1], b[2])

RLe(a, b) == ~RLt(b, a)

\* the element of a singleton set: { e(x) : x \in {v} } evaluates v once
The(S) == CHOOSE x \in S : TRUE

\* the function f itself, with its values computed once: TLC keeps a function
\* expression [x \in S |-> e] unevaluated, and evaluates e again at every
\* application, until the function is compared
Evaluated(f) == CHOOSE g \in {f} : g = f

RECURSIVE SumTo(_, _)
SumTo(row, n) == IF n = 0 THEN Zero ELSE RAdd(SumTo(row, n - 1), row[n])

RowSum(row) == SumTo(row, Len(row))

----------------------------------------------------------------------------
(* Reward scaling: NasEnv.scale_reward *)

\* reward = b1 + ((s-a1)*(b2-b1)) / (a2-a1); a zero divisor raises
Remap(s, a1, a2, b1, b2) ==
    IF RSub(a2, a1) = Zero
    THEN [raised |-> "ZeroDivisionError", value |-> Zero]
    ELSE [raised |-> "none",
          value |-> RAdd(b1, RDiv(RMul(RSub(s, a1), RSub(b2, b1)),
                                  RSub(a2, a1)))]

\* scale_reward with the upper segment mapped onto [0, 1], the range its
\* docstring and comments name
ScaleReward_UnitRange(baseline, accuracy) ==
    IF baseline = accuracy
    THEN [raised |-> "none", value |-> Zero]
    ELSE IF RLe(baseline, accuracy)
         THEN Remap(accuracy, baseline, One, Zero, One)
         ELSE Remap(accuracy, Zero, baseline, <<-1, 10>>, Zero)

\* scale_reward without the equality test of lines 498-499
ScaleReward_NoEqualityCheck(baseline, accuracy) ==
    IF RLe(baseline, accuracy)
    THEN Remap(accuracy, baseline, One, Zero, <<4, 1>>)
    ELSE Remap(accuracy, Zero, baseline, <<-1, 10>>, Zero)

ScaleReward(baseline, accuracy) ==
    IF baseline = accuracy
    THEN [raised |-> "none", value |-> Zero]
    ELSE IF RLe(baseline, accuracy)
         THEN Remap(accuracy, baseline, One, Zero, <<4, 1>>)
         ELSE IF RLe(accuracy, baseline)
              THEN Remap(accuracy, Zero, baseline, <<-1, 10>>, Zero)
              ELSE [raised |-> "none", value |-> Zero]

----------------------------------------------------------------------------
(* The operation-weight store: softmax, _inverse_softmax, increase_op,    *)
(* decrease_op                                                             *)

\* F.softmax(alpha, dim=-1) of one edge's raw weights
Softmax(raw) ==
    The({ Evaluated([i \in DOMAIN raw |-> RDiv(raw[i], s)]) :
          s \in {RowSum(raw)} })

\* torch.log(x) + C with C = math.log(10.), on a whole edge
InverseSoftmax(x) == Evaluated([i \in DOMAIN x |-> RMul(<<10, 1>>, x[i])])

\* the default amount of increase_op and decrease_op
DefaultProb == <<3, 10>>

\* the floor left out
AddFloor_None(edge) == edge

\* curr_edge += 0.01
AddFloor(edge) ==
    Evaluated([i \in DOMAIN edge |-> RAdd(edge[i], <<1, 100>>)])

\* increase_op with the floor added to curr_op instead of curr_edge
IncreaseOp_FloorOnTargetOnly(curr_edge, op_idx, prob0) ==
    LET curr_op == curr_edge[op_idx]
        prob == IF RLt(One, RAdd(curr_op, prob0))
                THEN RSub(prob0, RSub(RAdd(curr_op, prob0), <<99, 100>>))
                ELSE prob0
    IN IF RLt(RAdd(curr_op, prob), One)
       THEN LET floored == [curr_edge EXCEPT
                              ![op_idx] = RAdd(RAdd(curr_op, prob), <<1, 100>>)]
            IN [ret |-> TRUE, view |-> floored, written |-> TRUE,
                raw |-> InverseSoftmax(floored)]
       ELSE [ret |-> FALSE, view |-> curr_edge, written |-> FALSE,
             raw |-> curr_edge]

\* increase_op on the normalized weights curr_edge of one edge.  ret: the value
\* returned; view: normalized_alphas[row][edge] afterwards (changed in place);
\* written: whether alpha_normal[row][edge] was assigned, and raw: its new value.
IncreaseOp(curr_edge, op_idx, prob0) ==
    LET curr_op == curr_edge[op_idx]
        prob == IF RLt(One, RAdd(curr_op, prob0))
                THEN RSub(prob0, RSub(RAdd(curr_op, prob0), <<99, 100>>))
                ELSE prob0
    IN IF RLt(RAdd(curr_op, prob), One)
       THEN LET moved == [curr_edge EXCEPT ![op_idx] = RAdd(curr_op, prob)]
                floored == AddFloor(moved)
            IN [ret |-> TRUE, view |-> floored, written |-> TRUE,
                raw |-> InverseSoftmax(floored)]
       ELSE [ret |-> FALSE, view |-> curr_edge, written |-> FALSE,
             raw |-> curr_edge]

\* decrease_op, likewise
DecreaseOp(curr_edge, op_idx, prob0) ==
    LET curr_op == curr_edge[op_idx]
        prob == IF RLt(RSub(curr_op, prob0), Zero)
                THEN RSub(prob0, RAdd(RSub(prob0, curr_op), <<1, 100>>))
                ELSE prob0
    IN IF RLt(Zero, RSub(curr_op, prob))
       THEN LET moved == [curr_edge EXCEPT ![op_idx] = RSub(curr_op, prob)]
                floored == AddFloor(moved)
            IN [ret |-> TRUE, view |-> floored, written |-> TRUE,
                raw |-> InverseSoftmax(floored)]
       ELSE [ret |-> FALSE, view |-> curr_edge, written |-> FALSE,
             raw |-> curr_edge]

----------------------------------------------------------------------------
(* The cell graph: NasEnv.__init__ *)

\* self.n_nodes = self.config.nodes + 2
n_nodes == Nodes + 2

NodeIds == 0 .. (n_nodes - 1)

\* lines 64-65 left out: the two input nodes adjacent
A_InputsLinked == [a \in NodeIds |-> [b \in NodeIds |->
                     IF a = b THEN 0 ELSE 1]]

\* self.A = ones - eye, with A[0, 1] = A[1, 0] = 0
A == [a \in NodeIds |-> [b \in NodeIds |->
        IF a = b \/ {a, b} = {0, 1} THEN 0 ELSE 1]]

\* A[n] as it is concatenated into an observation
AdjRow(n) == Evaluated([k \in 1 .. n_nodes |-> A[n][k - 1]])

\* action_size = len(self.A) + 2*len(self.primitives) + 1
action_size == n_nodes + 2 * NOps + 1

Actions == 0 .. (action_size - 1)

----------------------------------------------------------------------------
(* The weights of the meta-model.  alpha_normal[i] holds the i+2 incoming  *)
(* edges of node i+2; an edge is addressed by <<i, j>>.                    *)

AlphaKeys == {k \in (0 .. (Nodes - 1)) \X (0 .. Nodes) : k[2] <= k[1] + 1}

\* <<i, j>> in the order the loops of update_states visit them
RECURSIVE EdgeListFrom(_, _)
EdgeListFrom(i, j) ==
    IF i >= Nodes THEN <<>>
    ELSE IF j > i + 1 THEN EdgeListFrom(i + 1, 0)
    ELSE <<(<<i, j>>)>> \o EdgeListFrom(i, j + 1)

EdgeList == EdgeListFrom(0, 0)

\* Normalized weights from which the model's initial raw weights are taken:
\* the first operation's value, the others sharing the rest equally.
FirstValues == << <<1, 2>>, <<7, 10>>, <<24, 25>>, <<0, 1>> >>

TemplateRow(t) ==
    [k \in 1 .. NOps |->
        IF k = 1 THEN FirstValues[t]
        ELSE RDiv(RSub(One, FirstValues[t]), <<NOps - 1, 1>>)]

\* the state dicts explored
Shifts == {0, 1}

\* A state dict of the meta-model: edge number e gets template (e + shift)
StateDict(shift) ==
    LET pos(key) == CHOOSE e \in DOMAIN EdgeList : EdgeList[e] = key
        w == [key \in AlphaKeys |->
                TemplateRow(((pos(key) - 1 + shift) % Len(FirstValues)) + 1)]
    IN [alpha_normal |-> w, alpha_reduce |-> w]

----------------------------------------------------------------------------
(* The state encoder: NasEnv.update_states *)

RECURSIVE MaxTo(_, _)
MaxTo(edge, n) ==
    IF n = 1 THEN edge[1]
    ELSE LET m == MaxTo(edge, n - 1)
         IN IF RLt(m, edge[n]) THEN edge[n] ELSE m

\* torch.topk(edges, 1): the largest operation weight of an edge
EdgeMax(edge) == MaxTo(edge, Len(edge))

\* torch.topk(edge_max.view(-1), k=2): the two edges of row i with the largest
\* edge_max; of equal values the one with the lower index is taken first
TopkEdgeIndices(norm, i) ==
    LET js == 0 .. (i + 1)
        mx == [j \in js |-> EdgeMax(norm[<<i, j>>])]
        m(j) == mx[j]
        before(a, b) == RLt(m(b), m(a)) \/ (m(a) = m(b) /\ a < b)
        first == CHOOSE a \in js : \A b \in js \ {a} : before(a, b)
        second == CHOOSE a \in js \ {first} :
                      \A b \in js \ {first, a} : before(a, b)
    IN {first, second}

\* lines 150-171: the normalized alphas of the cell that cell_type selects.
\* Any other cell type raises, and self.normalized_alphas keeps the value
\* old_norm it had.
NormalizedAlphas(ct, an, ar, old_norm) ==
    IF ct = "normal"
    THEN [raised |-> "none",
          value |-> Evaluated([key \in AlphaKeys |-> Softmax(an[key])])]
    ELSE IF ct = "reduce"
    THEN [raised |-> "none",
          value |-> Evaluated([key \in AlphaKeys |-> Softmax(ar[key])])]
    ELSE [raised |-> "RuntimeError", value |-> old_norm]

\* one observation of the state table
Observation(from, to, flag, adj, edge) ==
    [from |-> from, to |-> to, topk |-> flag, adj |-> adj, ops |-> edge]

\* both directions of an edge given the index s_idx
RECURSIVE Encode_SharedIndex(_, _, _, _)
Encode_SharedIndex(norm, topk, k, acc) ==
    IF k > Len(EdgeList) THEN acc
    ELSE LET i == EdgeList[k][1]
             j == EdgeList[k][2]
             flag == IF j \in topk[i] THEN 1 ELSE 0
             edge == norm[<<i, j>>]
         IN The({ Encode_SharedIndex(norm, topk, k + 1, next) : next \in {
              [s_idx |-> acc.s_idx + 2,
               edge_to_index |->
                   (<<i + 2, j>> :> (acc.s_idx)) @@
                   (<<j, i + 2>> :> acc.s_idx) @@ acc.edge_to_index,
               edge_to_alpha |->
                   (<<i + 2, j>> :> <<i, j>>) @@
                   (<<j, i + 2>> :> <<i, j>>) @@ acc.edge_to_alpha,
               states |-> acc.states \o
                   << Observation(j, i + 2, flag, AdjRow(i + 2), edge),
                      Observation(i + 2, j, flag, AdjRow(j), edge) >>] } })

\* the two indices of an edge given the other way round
RECURSIVE Encode_SwappedIndex(_, _, _, _)
Encode_SwappedIndex(norm, topk, k, acc) ==
    IF k > Len(EdgeList) THEN acc
    ELSE LET i == EdgeList[k][1]
             j == EdgeList[k][2]
             flag == IF j \in topk[i] THEN 1 ELSE 0
             edge == norm[<<i, j>>]
         IN The({ Encode_SwappedIndex(norm, topk, k + 1, next) : next \in {
              [s_idx |-> acc.s_idx + 2,
               edge_to_index |->
                   (<<i + 2, j>> :> (acc.s_idx)) @@
                   (<<j, i + 2>> :> (acc.s_idx + 1)) @@ acc.edge_to_index,
               edge_to_alpha |->
                   (<<i + 2, j>> :> <<i, j>>) @@
                   (<<j, i + 2>> :> <<i, j>>) @@ acc.edge_to_alpha,
               states |-> acc.states \o
                   << Observation(j, i + 2, flag, AdjRow(i + 2), edge),
                      Observation(i + 2, j, flag, AdjRow(j), edge) >>] } })

\* intermediate node i numbered i+1, as if there were one input node
RECURSIVE Encode_NodeOffsetOne(_, _, _, _)
Encode_NodeOffsetOne(norm, topk, k, acc) ==
    IF k > Len(EdgeList) THEN acc
    ELSE LET i == EdgeList[k][1]
             j == EdgeList[k][2]
             flag == IF j \in topk[i] THEN 1 ELSE 0
             edge == norm[<<i, j>>]
         IN The({ Encode_NodeOffsetOne(norm, topk, k + 1, next) : next \in {
              [s_idx |-> acc.s_idx + 2,
               edge_to_index |->
                   (<<i + 1, j>> :> (acc.s_idx + 1)) @@
                   (<<j, i + 1>> :> acc.s_idx) @@ acc.edge_to_index,
               edge_to_alpha |->
                   (<<i + 1, j>> :> <<i, j>>) @@
                   (<<j, i + 1>> :> <<i, j>>) @@ acc.edge_to_alpha,
               states |-> acc.states \o
                   << Observation(j, i + 1, flag, AdjRow(i + 1), edge),
                      Observation(i + 1, j, flag, AdjRow(j), edge) >>] } })

\* the body of the loops of lines 173-202, from position k of EdgeList on
\* (topk[i] is topk_edge_indices of row i, computed once per row as in line 177)
RECURSIVE Encode(_, _, _, _)
Encode(norm, topk, k, acc) ==
    IF k > Len(EdgeList) THEN acc
    ELSE LET i == EdgeList[k][1]
             j == EdgeList[k][2]
             flag == IF j \in topk[i] THEN 1 ELSE 0
             edge == norm[<<i, j>>]
         IN The({ Encode(norm, topk, k + 1, next) : next \in {
              [s_idx |-> acc.s_idx + 2,
               edge_to_index |->
                   (<<i + 2, j>> :> (acc.s_idx + 1)) @@
                   (<<j, i + 2>> :> acc.s_idx) @@ acc.edge_to_index,
               edge_to_alpha |->
                   (<<i + 2, j>> :> <<i, j>>) @@
                   (<<j, i + 2>> :> <<i, j>>) @@ acc.edge_to_alpha,
               states |-> acc.states \o
                   << Observation(j, i + 2, flag, AdjRow(i + 2), edge),
                      Observation(i + 2, j, flag, AdjRow(j), edge) >>] } })

\* the rows of the table before the call kept: self.states not emptied
ClearTables_StatesKept(old) ==
    [s_idx |-> 0, edge_to_index |-> <<>>, edge_to_alpha |-> <<>>,
     states |-> old.states]

\* what update_states finds in self.normalized_alphas and self.states when
\* there is nothing yet (the constructor)
NoTables == [normalized_alphas |-> <<>>, states |-> <<>>]

\* lines 144-147, with old.states the value of self.states before the call
ClearTables(old) ==
    [s_idx |-> 0, edge_to_index |-> <<>>, edge_to_alpha |-> <<>>,
     states |-> <<>>]

\* lines 144-147 and 173-204 on the normalized alphas norm
EncodeTable(norm, topk, old) ==
    The({ [normalized_alphas |-> norm, states |-> enc.states,
           edge_to_index |-> enc.edge_to_index,
           edge_to_alpha |-> enc.edge_to_alpha] :
          enc \in { Encode(norm, topk, 1, ClearTables(old)) } })

EncodeRows(norm, old) ==
    The({ EncodeTable(norm, topk, old) :
          topk \in { Evaluated([i \in 0 .. (Nodes - 1) |->
                                   TopkEdgeIndices(norm, i)]) } })

\* lines 144-147 and 170-171: the tables are cleared, then the call raises
UpdateStatesRaised(raised, old) ==
    The({ [raised |-> raised, normalized_alphas |-> old.normalized_alphas,
           states |-> clr.states, edge_to_index |-> clr.edge_to_index,
           edge_to_alpha |-> clr.edge_to_alpha] :
          clr \in { ClearTables(old) } })

\* update_states on the weights an, ar, with old the normalized alphas and the
\* table it finds.  raised is the exception it ends with ("none" when it
\* returns).
UpdateStates(ct, an, ar, old) ==
    The({ IF norm.raised # "none" THEN UpdateStatesRaised(norm.raised, old)
          ELSE [raised |-> "none"] @@ EncodeRows(norm.value, old) :
          norm \in {NormalizedAlphas(ct, an, ar, old.normalized_alphas)} })

\* the start edge taken from the end of the table
StartIndex_Last == 2 * Len(EdgeList) - 1

\* set_start_state
StartIndex == 0

----------------------------------------------------------------------------
(* Reward computation: NasEnv.compute_reward                               *)

\* the accuracies _darts_estimation / _meta_predictor_estimation can return
AccValues == { <<0, 1>>, <<1, 2>> }

\* compute_reward followed by the caller's unpacking into two values: in test
\* mode (test_env is not None) a single number comes back and unpacking raises;
\* otherwise the estimation reads the loaders of the task, which None lacks, and
\* the accuracy it yields is scaled.  The value is the set of possible outcomes.
ComputeReward(tenv, task, baseline) ==
    IF tenv # "None"
    THEN {[raised |-> "TypeError", reward |-> Zero, acc |-> Zero]}
    ELSE IF task = "None"
    THEN {[raised |-> "AttributeError", reward |-> Zero, acc |-> Zero]}
    ELSE { [raised |-> r.raised, reward |-> r.value, acc |-> r.acc] :
           r \in { [acc |-> est] @@ ScaleReward(baseline, est) :
                   est \in AccValues } }

----------------------------------------------------------------------------
(* The action dispatcher: NasEnv.update_meta_model and _perform_action     *)

\* the reduce cell mutated like the normal cell
UpdateMetaModel_ReduceAsNormal(ct, increase, curr_edge, op_idx) ==
    [raised |-> "none"] @@
    (IF increase THEN IncreaseOp(curr_edge, op_idx, DefaultProb)
     ELSE DecreaseOp(curr_edge, op_idx, DefaultProb))

\* update_meta_model: lines 290-296 (normal), 298-299 (reduce), 301-302 (any
\* other cell type)
UpdateMetaModel(ct, increase, curr_edge, op_idx) ==
    IF ct = "normal"
    THEN [raised |-> "none"] @@
         (IF increase THEN IncreaseOp(curr_edge, op_idx, DefaultProb)
          ELSE DecreaseOp(curr_edge, op_idx, DefaultProb))
    ELSE IF ct = "reduce"
    THEN [raised |-> "NotImplementedError", ret |-> FALSE,
          view |-> curr_edge, written |-> FALSE, raw |-> curr_edge]
    ELSE [raised |-> "RuntimeError", ret |-> FALSE,
          view |-> curr_edge, written |-> FALSE, raw |-> curr_edge]

\* lines 241-243 and 273-275: alpha_normal[row_idx][edge_idx] = ...
WriteEdge(an, key, raw) == [an EXCEPT ![key] = raw]

\* the rebuild made whatever the operation returned
NeedsRebuild_Always(update) == TRUE

\* lines 417 and 445: if update: self.update_states()
NeedsRebuild(update) == update

\* The locals and the fields of self that _perform_action reads and writes
Locals(action) ==
    [action |-> action,
     cur_node |-> current_state.from,
     next_node |-> current_state.to,
     reward |-> Zero, acc_some |-> FALSE, acc |-> Zero,
     raised |-> "none", fired |-> {}, update |-> "none", rebuilt |-> FALSE,
     alpha_normal |-> alpha_normal,
     normalized_alphas |-> normalized_alphas,
     states |-> states,
     edge_to_index |-> edge_to_index,
     edge_to_alpha |-> edge_to_alpha,
     current_state |-> current_state,
     terminate_episode |-> terminate_episode]

\* the penalty of the comment on line 396: "return reward -1"
TraverseBranch_PenaltyMinusOne(L) ==
    IF L.raised # "none" \/ L.action \notin 0 .. (n_nodes - 1) THEN L
    ELSE IF A[L.next_node][L.action] > 0
    THEN LET s_idx == L.edge_to_index[<<L.next_node, L.action>>]
         IN [L EXCEPT !.cur_node = L.next_node,
                      !.next_node = L.action,
                      !.current_state = L.states[s_idx + 1],
                      !.fired = @ \cup {"traverse"}]
    ELSE [L EXCEPT !.reward = <<-1, 1>>,
                   !.fired = @ \cup {"traverse"}]

\* the table looked up with the pair the wrong way round
TraverseBranch_ReversedEdge(L) ==
    IF L.raised # "none" \/ L.action \notin 0 .. (n_nodes - 1) THEN L
    ELSE IF A[L.next_node][L.action] > 0
    THEN LET s_idx == L.edge_to_index[<<L.action, L.next_node>>]
         IN [L EXCEPT !.cur_node = L.next_node,
                      !.next_node = L.action,
                      !.current_state = L.states[s_idx + 1],
                      !.fired = @ \cup {"traverse"}]
    ELSE [L EXCEPT !.reward = <<-1, 10>>,
                   !.fired = @ \cup {"traverse"}]

\* lines 380-399
TraverseBranch(L) ==
    IF L.raised # "none" \/ L.action \notin 0 .. (n_nodes - 1) THEN L
    ELSE IF A[L.next_node][L.action] > 0
    THEN LET s_idx == L.edge_to_index[<<L.next_node, L.action>>]
         IN [L EXCEPT !.cur_node = L.next_node,
                      !.next_node = L.action,
                      !.current_state = L.states[s_idx + 1],
                      !.fired = @ \cup {"traverse"}]
    ELSE IF A[L.next_node][L.action] < 1
    THEN [L EXCEPT !.reward = <<-1, 10>>,
                   !.fired = @ \cup {"traverse"}]
    ELSE [L EXCEPT !.fired = @ \cup {"traverse"}]

\* lines 404-427 and 432-455: the body shared by the two mutation branches,
\* entered with the action already rebased to an operation index.  The value is
\* the set of the locals it can end with, one for each outcome of compute_reward.
MutateBody(L, increase, op) ==
    LET edge == <<L.cur_node, L.next_node>>
        key == L.edge_to_alpha[edge]
        s_idx == L.edge_to_index[edge]
        M == [L EXCEPT !.action = op,
                       !.fired = @ \cup {IF increase THEN "increase"
                                         ELSE "decrease"}]
        \* lines 417-425, given what update_meta_model returned
        After(u) ==
            LET an == IF u.written THEN WriteEdge(L.alpha_normal, key, u.raw)
                      ELSE L.alpha_normal
                view == [L.normalized_alphas EXCEPT ![key] = u.view]
                \* if update: self.update_states()
                Rebuilt(enc) ==
                    [M EXCEPT !.raised = enc.raised,
                              !.update = IF u.ret THEN "True" ELSE "False",
                              !.rebuilt = TRUE,
                              !.alpha_normal = an,
                              !.normalized_alphas = enc.normalized_alphas,
                              !.states = enc.states,
                              !.edge_to_index = enc.edge_to_index,
                              !.edge_to_alpha = enc.edge_to_alpha,
                              !.current_state =
                                  IF enc.raised # "none" THEN L.current_state
                                  ELSE enc.states[s_idx + 1]]
                N == IF NeedsRebuild(u.ret)
                     THEN The({ Rebuilt(enc) : enc \in
                                {UpdateStates(cell_type, an, alpha_reduce,
                                              [normalized_alphas |-> view,
                                               states |-> L.states])} })
                     ELSE [M EXCEPT !.update = IF u.ret THEN "True" ELSE "False",
                                    !.alpha_normal = an,
                                    !.normalized_alphas = view,
                                    !.current_state = L.states[s_idx + 1]]
                \* reward, acc = self.compute_reward()
                Scored(K, cr) ==
                    IF K.raised # "none" THEN K
                    ELSE IF cr.raised # "none"
                    THEN [K EXCEPT !.raised = cr.raised]
                    ELSE [K EXCEPT !.reward = cr.reward,
                                   !.acc_some = TRUE, !.acc = cr.acc]
            IN IF u.raised # "none" THEN {[M EXCEPT !.raised = u.raised]}
               ELSE { Scored(K, cr) : K \in {N},
                      cr \in ComputeReward(test_env, current_task,
                                           baseline_acc) }
    IN UNION { After(u) : u \in
               {UpdateMetaModel(cell_type, increase,
                                L.normalized_alphas[key], op + 1)} }

\* lines 402-427
IncreaseBranch(L) ==
    IF L.raised # "none"
       \/ L.action \notin n_nodes .. (n_nodes + NOps - 1) THEN {L}
    ELSE MutateBody(L, TRUE, L.action - n_nodes)

\* lines 430-455
DecreaseBranch(L) ==
    IF L.raised # "none"
       \/ L.action \notin (n_nodes + NOps) .. (n_nodes + 2 * NOps - 1) THEN {L}
    ELSE MutateBody(L, FALSE, L.action - n_nodes - NOps)

\* the range written np.arange(len(A)+2*len(primitives)+1): from 0
TerminateBranch_FromZero(L) ==
    IF L.raised # "none"
       \/ L.action \notin 0 .. (n_nodes + 2 * NOps) THEN L
    ELSE [L EXCEPT !.terminate_episode = TRUE,
                   !.fired = @ \cup {"terminate"}]

\* lines 458-462
TerminateBranch(L) ==
    IF L.raised # "none"
       \/ L.action \notin (n_nodes + 2 * NOps) .. (n_nodes + 2 * NOps) THEN L
    ELSE [L EXCEPT !.terminate_episode = TRUE,
                   !.fired = @ \cup {"terminate"}]

\* The four tests of _perform_action run one after the other on the locals the
\* earlier ones left; the value is the set of the locals the call can end with.
PerformAction(action) ==
    { TerminateBranch(L3) : L3 \in
        UNION { DecreaseBranch(L2) : L2 \in
            UNION { IncreaseBranch(L1) : L1 \in
                { TraverseBranch(L0) : L0 \in {Locals(action)} } } } }

----------------------------------------------------------------------------
(* The calls on the environment *)

\* what a call returned: raised is the exception it ended with ("none" when it
\* returned), obs/reward/done/acc the values of a step that returned
Returned(op, action, raised, obs, reward, done, acc_some, acc, L) ==
    [op |-> op, action |-> action, raised |-> raised, obs |-> obs,
     reward |-> reward, done |-> done, acc_some |-> acc_some, acc |-> acc,
     fired |-> L.fired, update |-> L.update, rebuilt |-> L.rebuilt]

NoLocals == [fired |-> {}, update |-> "none", rebuilt |-> FALSE]

\* a call outside step that ran update_states
RebuiltOnly == [fired |-> {}, update |-> "none", rebuilt |-> TRUE]

UnsetMetaState == [set |-> FALSE, alpha_normal |-> <<>>, alpha_reduce |-> <<>>]

\* self.max_alphas is a list of tensors.  kind tells what they are: "empty"
\* (the list []), "live" (the parameters of the meta-model themselves, which
\* hold whatever the weights are now) or "copy" (tensors of their own, whose
\* values are at).  by is the call that made the list.
NoMaxAlphas == [kind |-> "empty", by |-> "init", at |-> <<>>]

\* row.to(self.config.device) returns the parameter itself when it is on that
\* device already, and a copy of it otherwise.  The model takes the meta-model
\* to be on config.device (as when both are the CPU).
ToDeviceOutcomes == {"live"}

\* get_max_alphas, as the values of the tensors it returns
GetMaxAlphas ==
    IF max_alphas.kind = "live" THEN alpha_normal ELSE max_alphas.at

\* the baseline assigned whatever the accuracy
NewBaseline_AnyAccuracy(baseline, acc_some, acc) ==
    IF acc_some THEN acc ELSE baseline

\* lines 324-325
NewBaseline(baseline, acc_some, acc) ==
    IF acc_some /\ RLt(Zero, acc) THEN acc ELSE baseline

\* lines 324 and 327: a new best accuracy
NewBest(best, acc_some, acc) ==
    acc_some /\ RLt(Zero, acc) /\ RLt(best, acc)

\* NasEnv.__init__ on a meta-model whose weights are StateDict(shift)
Construct(ct, tenv, shift) ==
    LET sd == StateDict(shift)
        enc == UpdateStates(ct, sd.alpha_normal, sd.alpha_reduce, NoTables)
    IN \* an exception of update_states leaves the constructor: no environment
       /\ enc.raised = "none"
       /\ cell_type = ct
       /\ test_env = tenv
       /\ current_task = "None"
       /\ meta_state = UnsetMetaState
       /\ alpha_normal = sd.alpha_normal
       /\ alpha_reduce = sd.alpha_reduce
       /\ normalized_alphas = enc.normalized_alphas
       /\ states = enc.states
       /\ edge_to_index = enc.edge_to_index
       /\ edge_to_alpha = enc.edge_to_alpha
       /\ current_state_index = StartIndex
       /\ current_state = enc.states[StartIndex + 1]
       /\ step_count = 0
       /\ terminate_episode = FALSE
       /\ baseline_acc = Zero
       /\ max_acc = Zero
       /\ max_alphas = NoMaxAlphas
       /\ calls = 0
       /\ call = Returned("init", -1, "none", enc.states[StartIndex + 1],
                          Zero, FALSE, FALSE, Zero, RebuiltOnly)

\* done without the termination flag
StepDone_BudgetOnly(count, terminated) == count = max_ep_len

\* done from the budget on
StepDone_AtLeast(count, terminated) == count >= max_ep_len \/ terminated

\* lines 342-343
StepDone(count, terminated) == count = max_ep_len \/ terminated

\* NasEnv.step.  The environment does not refuse a step after done; the model
\* follows the weights through max_ep_len + 1 calls of step, increase_op,
\* decrease_op or update_meta_model after they are loaded.
Step(action) ==
    /\ calls <= max_ep_len
    /\ calls' = calls + 1
    /\ \E L \in PerformAction(action) :
       LET count == step_count + 1
           done == StepDone(count, L.terminate_episode)
       IN /\ alpha_normal' = L.alpha_normal
          /\ normalized_alphas' = L.normalized_alphas
          /\ states' = L.states
          /\ edge_to_index' = L.edge_to_index
          /\ edge_to_alpha' = L.edge_to_alpha
          /\ current_state' = L.current_state
          /\ terminate_episode' = L.terminate_episode
          /\ IF L.raised # "none"
             THEN /\ call' = Returned("step", action, L.raised,
                                      L.current_state, Zero, FALSE, FALSE,
                                      Zero, L)
                  /\ UNCHANGED <<baseline_acc, step_count, max_acc,
                                 max_alphas>>
             ELSE /\ baseline_acc' = NewBaseline(baseline_acc, L.acc_some,
                                                 L.acc)
                  /\ IF NewBest(max_acc, L.acc_some, L.acc)
                     THEN /\ max_acc' = L.acc
                          /\ \E kind \in ToDeviceOutcomes :
                               max_alphas' =
                                   [kind |-> kind, by |-> "step",
                                    at |-> IF kind = "copy"
                                           THEN L.alpha_normal ELSE <<>>]
                     ELSE UNCHANGED <<max_acc, max_alphas>>
                  /\ step_count' = count
                  /\ call' = Returned("step", action, "none",
                                      L.current_state, L.reward, done,
                                      L.acc_some, L.acc, L)
    /\ UNCHANGED <<cell_type, test_env, current_task, meta_state,
                   alpha_reduce, current_state_index, fn_in, fn_out>>

\* self.normalized_alphas and self.states as a call of update_states finds them
OldTables == [normalized_alphas |-> normalized_alphas, states |-> states]

\* NasEnv.reset, with task and ms the values of self.current_task and
\* self.meta_state when it is entered
ResetBody(op, task, ms) ==
    IF task = "None" /\ test_env = "False"
    THEN /\ call' = Returned(op, -1, "AssertionError", current_state, Zero,
                             FALSE, FALSE, Zero, NoLocals)
         /\ UNCHANGED <<alpha_normal, alpha_reduce, normalized_alphas, states,
                        edge_to_index, edge_to_alpha, current_state,
                        current_state_index, step_count, terminate_episode,
                        baseline_acc, calls>>
    ELSE /\ step_count' = 0
         /\ terminate_episode' = FALSE
         /\ IF ~ms.set
            THEN /\ call' = Returned(op, -1, "AttributeError", current_state,
                                     Zero, FALSE, FALSE, Zero, NoLocals)
                 /\ UNCHANGED <<alpha_normal, alpha_reduce, normalized_alphas,
                                states, edge_to_index, edge_to_alpha,
                                current_state, current_state_index,
                                baseline_acc, calls>>
            ELSE \E enc \in {UpdateStates(cell_type, ms.alpha_normal,
                                           ms.alpha_reduce, OldTables)} :
                    /\ alpha_normal' = ms.alpha_normal
                    /\ alpha_reduce' = ms.alpha_reduce
                    /\ calls' = 0
                    /\ normalized_alphas' = enc.normalized_alphas
                    /\ states' = enc.states
                    /\ edge_to_index' = enc.edge_to_index
                    /\ edge_to_alpha' = enc.edge_to_alpha
                    /\ IF enc.raised # "none"
                       THEN \* update_states raised: lines 101-105 not reached
                            /\ call' = Returned(op, -1, enc.raised,
                                                current_state, Zero, FALSE,
                                                FALSE, Zero, RebuiltOnly)
                            /\ UNCHANGED <<current_state, current_state_index,
                                           baseline_acc>>
                       ELSE \E cr \in ComputeReward(test_env, task,
                                                    baseline_acc) :
                            /\ current_state_index' = StartIndex
                            /\ current_state' = enc.states[StartIndex + 1]
                            /\ baseline_acc' = IF cr.raised = "none"
                                               THEN cr.acc ELSE baseline_acc
                            /\ call' = Returned(op, -1, cr.raised,
                                                enc.states[StartIndex + 1],
                                                Zero, FALSE,
                                                cr.raised = "none", cr.acc,
                                                RebuiltOnly)

Reset ==
    /\ ResetBody("reset", current_task, meta_state)
    /\ UNCHANGED <<cell_type, test_env, current_task, meta_state,
                   max_acc, max_alphas, fn_in, fn_out>>

\* NasEnv.set_task with the state dict StateDict(shift)
SetTask(shift) ==
    \E ms \in {[set |-> TRUE] @@ StateDict(shift)} :
       /\ current_task' = "task"
       /\ meta_state' = ms
       /\ ResetBody("set_task", "task", ms)
       \* lines 117-123, reached when reset returned
       /\ IF call'.raised = "none"
          THEN /\ max_acc' = Zero
               /\ max_alphas' = [kind |-> "live", by |-> "set_task",
                                 at |-> <<>>]
          ELSE UNCHANGED <<max_acc, max_alphas>>
       /\ UNCHANGED <<cell_type, test_env, fn_in, fn_out>>

\* NasEnv.update_states called by a client
UpdateStatesCall ==
    /\ \E enc \in {UpdateStates(cell_type, alpha_normal, alpha_reduce,
                                  OldTables)} :
         /\ normalized_alphas' = enc.normalized_alphas
         /\ states' = enc.states
         /\ edge_to_index' = enc.edge_to_index
         /\ edge_to_alpha' = enc.edge_to_alpha
         /\ call' = Returned("update_states", -1, enc.raised, current_state,
                             Zero, FALSE, FALSE, Zero, RebuiltOnly)
    /\ UNCHANGED <<cell_type, test_env, current_task, meta_state,
                   alpha_normal, alpha_reduce, current_state,
                   current_state_index, step_count, terminate_episode,
                   baseline_acc, max_acc, max_alphas, calls, fn_in, fn_out>>

\* lines 208-210 on the table rows: the index is assigned, then the row is
\* read, which raises on an empty table
SetStartState(rows) ==
    IF Len(rows) <= StartIndex
    THEN [raised |-> "IndexError", current_state_index |-> StartIndex,
          current_state |-> current_state]
    ELSE [raised |-> "none", current_state_index |-> StartIndex,
          current_state |-> rows[StartIndex + 1]]

\* NasEnv.set_start_state called by a client
SetStartStateCall ==
    /\ \E st \in {SetStartState(states)} :
         /\ current_state_index' = st.current_state_index
         /\ current_state' = st.current_state
         /\ call' = Returned("set_start_state", -1, st.raised,
                             st.current_state, Zero, FALSE, FALSE, Zero,
                             NoLocals)
    /\ UNCHANGED <<cell_type, test_env, current_task, meta_state,
                   alpha_normal, alpha_reduce, normalized_alphas, states,
                   edge_to_index, edge_to_alpha, step_count,
                   terminate_episode, baseline_acc, max_acc, max_alphas,
                   calls, fn_in, fn_out>>

\* NasEnv.initialize_observation_space called by a client: update_states, then
\* set_start_state on the table it built (observation_space is not modelled)
InitializeObservationSpaceCall ==
    /\ \E enc \in {UpdateStates(cell_type, alpha_normal, alpha_reduce,
                                  OldTables)} :
         /\ normalized_alphas' = enc.normalized_alphas
         /\ states' = enc.states
         /\ edge_to_index' = enc.edge_to_index
         /\ edge_to_alpha' = enc.edge_to_alpha
         /\ IF enc.raised # "none"
            THEN /\ call' = Returned("initialize_observation_space", -1,
                                     enc.raised, current_state, Zero, FALSE,
                                     FALSE, Zero, RebuiltOnly)
                 /\ UNCHANGED <<current_state, current_state_index>>
            ELSE \E st \in {SetStartState(enc.states)} :
                 /\ current_state_index' = st.current_state_index
                 /\ current_state' = st.current_state
                 /\ call' = Returned("initialize_observation_space", -1,
                                     st.raised, st.current_state, Zero,
                                     FALSE, FALSE, Zero, RebuiltOnly)
    /\ UNCHANGED <<cell_type, test_env, current_task, meta_state,
                   alpha_normal, alpha_reduce, step_count,
                   terminate_episode, baseline_acc, max_acc, max_alphas,
                   calls, fn_in, fn_out>>

\* what a direct call of increase_op, decrease_op or update_meta_model leaves
\* of the result u of the call: no branch of _perform_action, no rebuild
MutationOnly(u) ==
    [fired |-> {},
     update |-> IF u.raised # "none" THEN "none"
                ELSE IF u.ret THEN "True" ELSE "False",
     rebuilt |-> FALSE]

\* a client's call of increase_op, decrease_op or update_meta_model on
\* alpha_normal[row_idx][edge_idx], with u what the call did to the edge
\* normalized_alphas[row_idx][edge_idx]: that edge is changed in place and the
\* raw weights are written; update_states is not run
MutationCall(op, key, u) ==
    /\ calls <= max_ep_len
    /\ calls' = calls + 1
    /\ normalized_alphas' = [normalized_alphas EXCEPT ![key] = u.view]
    /\ alpha_normal' = IF u.written THEN WriteEdge(alpha_normal, key, u.raw)
                       ELSE alpha_normal
    /\ call' = Returned(op, -1, u.raised, current_state, Zero, FALSE, FALSE,
                        Zero, MutationOnly(u))
    /\ UNCHANGED <<cell_type, test_env, current_task, meta_state,
                   alpha_reduce, states, edge_to_index, edge_to_alpha,
                   current_state, current_state_index, step_count,
                   terminate_episode, baseline_acc, max_acc, max_alphas,
                   fn_in, fn_out>>

\* NasEnv.increase_op(row_idx, edge_idx, op_idx) called by a client; increase_op
\* does not look at cell_type
IncreaseOpCall(key, op_idx) ==
    \E u \in {[raised |-> "none"] @@
              IncreaseOp(normalized_alphas[key], op_idx + 1, DefaultProb)} :
       MutationCall("increase_op", key, u)

\* NasEnv.decrease_op(row_idx, edge_idx, op_idx) called by a client
DecreaseOpCall(key, op_idx) ==
    \E u \in {[raised |-> "none"] @@
              DecreaseOp(normalized_alphas[key], op_idx + 1, DefaultProb)} :
       MutationCall("decrease_op", key, u)

\* NasEnv.update_meta_model(increase, row_idx, edge_idx, op_idx) called by a
\* client
UpdateMetaModelCall(increase, key, op_idx) ==
    \E u \in {UpdateMetaModel(cell_type, increase, normalized_alphas[key],
                               op_idx + 1)} :
       MutationCall("update_meta_model", key, u)

NoFn == [kind |-> "none"]

Init ==
    /\ \E ct \in {"normal", "reduce"}, tenv \in {"None", "False", "True"},
          shift \in Shifts : Construct(ct, tenv, shift)
    /\ fn_in = NoFn
    /\ fn_out = NoFn

StepAction == \E action \in Actions : Step(action)

SetTaskAction == \E shift \in Shifts : SetTask(shift)

\* the operation indices a client passes
OpIndices == 0 .. (NOps - 1)

IncreaseOpAction ==
    \E key \in AlphaKeys, op_idx \in OpIndices : IncreaseOpCall(key, op_idx)

DecreaseOpAction ==
    \E key \in AlphaKeys, op_idx \in OpIndices : DecreaseOpCall(key, op_idx)

UpdateMetaModelAction ==
    \E increase \in BOOLEAN, key \in AlphaKeys, op_idx \in OpIndices :
       UpdateMetaModelCall(increase, key, op_idx)

Next ==
    \/ StepAction
    \/ Reset
    \/ SetTaskAction
    \/ UpdateStatesCall
    \/ SetStartStateCall
    \/ InitializeObservationSpaceCall
    \/ IncreaseOpAction
    \/ DecreaseOpAction
    \/ UpdateMetaModelAction

Spec == Init /\ [][Next]_vars

----------------------------------------------------------------------------
(* scale_reward applied to a baseline and an accuracy drawn from a grid *)

ScaleGrid == { Rat(k, 20) : k \in 0 .. 20 }

InitScale ==
    /\ Construct("normal", "None", 0)
    /\ fn_in \in { [kind |-> "scale_reward", baseline |-> b, accuracy |-> a] :
                   b \in ScaleGrid, a \in ScaleGrid }
    /\ fn_out = NoFn

ApplyScaleReward ==
    /\ fn_in.kind = "scale_reward"
    /\ fn_out = NoFn
    /\ fn_out' = [kind |-> "scale_reward"] @@
                 ScaleReward(fn_in.baseline, fn_in.accuracy)
    /\ UNCHANGED <<env_vars, fn_in>>

NextScale == ApplyScaleReward

SpecScale == InitScale /\ [][NextScale]_vars

----------------------------------------------------------------------------
(* Lines 412-419 / 440-447 on one edge whose normalized weights are drawn   *)
(* from a grid: update_meta_model, then update_states if it returned True.  *)
(* normalized is normalized_alphas[row][edge] afterwards.                   *)

\* all edges whose normalized weights are multiples of 0.01 and sum to 1
GridEdges ==
    { [k \in 1 .. NOps |->
         IF k < NOps THEN Rat(r[k], 100)
         ELSE Rat(100 - RowSum([j \in 1 .. (NOps - 1) |-> <<r[j], 1>>])[1],
                  100)] :
      r \in { q \in [1 .. (NOps - 1) -> 0 .. 100] :
                RowSum([j \in 1 .. (NOps - 1) |-> <<q[j], 1>>])[1] <= 100 } }

InitOps ==
    /\ Construct("normal", "None", 0)
    /\ fn_in \in { [kind |-> "op", increase |-> inc, edge |-> e,
                    op_idx |-> k] :
                   inc \in BOOLEAN, e \in GridEdges, k \in 1 .. NOps }
    /\ fn_out = NoFn

\* the raw weights of the edge before the call are those with e^w = edge
ApplyOp(increase) ==
    /\ fn_in.kind = "op"
    /\ fn_in.increase = increase
    /\ fn_out = NoFn
    /\ \E u \in {UpdateMetaModel("normal", increase, fn_in.edge,
                                 fn_in.op_idx)} :
         \E raw \in {IF u.written THEN u.raw ELSE fn_in.edge} :
           fn_out' = [kind |-> "op", ret |-> u.ret, view |-> u.view,
                      written |-> u.written, raw |-> raw,
                      normalized |-> IF NeedsRebuild(u.ret)
                                     THEN Softmax(raw) ELSE u.view]
    /\ UNCHANGED <<env_vars, fn_in>>

ApplyIncreaseOp == ApplyOp(TRUE)

ApplyDecreaseOp == ApplyOp(FALSE)

NextOps == ApplyIncreaseOp \/ ApplyDecreaseOp

SpecOps == InitOps /\ [][NextOps]_vars

----------------------------------------------------------------------------
(* Properties *)

\* the step is a call of step
StepCalled == call'.op = "step" /\ calls' = calls + 1

TerminalAction == n_nodes + 2 * NOps

\* C1 (as stated): a traversal action toward a node that is not adjacent to
\* the current to-node returns reward -0.1, leaves the current edge unchanged,
\* returns the unchanged observation, and reports done only if the step count
\* now equals max_ep_len.
C1_IllegalTraversalDoneOnlyAtBudget ==
    [][ ( /\ StepCalled
          /\ call'.action \in NodeIds
          /\ A[current_state.to][call'.action] = 0 )
        => ( /\ call'.raised = "none"
             /\ call'.reward = <<-1, 10>>
             /\ current_state' = current_state
             /\ call'.obs = current_state
             /\ (call'.done => step_count' = max_ep_len) ) ]_vars

\* C1 (amended): a traversal action toward a node that is not adjacent to the
\* current to-node returns reward -0.1, leaves the current edge, the weights
\* and the state table unchanged, returns the unchanged observation, and
\* reports done exactly when the step count now equals max_ep_len or the
\* episode was terminated by an earlier terminal action.
C1_IllegalTraversal ==
    [][ ( /\ StepCalled
          /\ call'.action \in NodeIds
          /\ A[current_state.to][call'.action] = 0 )
        => ( /\ call'.raised = "none"
             /\ call'.reward = <<-1, 10>>
             /\ current_state' = current_state
             /\ call'.obs = current_state
             /\ alpha_normal' = alpha_normal
             /\ states' = states
             /\ terminate_episode' = terminate_episode
             /\ (call'.done <=> (step_count' = max_ep_len
                                 \/ terminate_episode)) ) ]_vars

\* an illegal traversal has returned, past the budget and not done
C1_Witness ==
    /\ call.op = "step"
    /\ call.raised = "none"
    /\ call.action \in NodeIds
    /\ call.fired = {"traverse"}
    /\ call.reward = <<-1, 10>>
    /\ step_count > max_ep_len
    /\ ~call.done

\* C2: a traversal action t with A[to][t] = 1 moves the current edge to
\* (to, t), returns reward 0 with no accuracy, and returns the row of the state
\* table at edge_to_index[(to, t)] as the observation.
C2_LegalTraversal ==
    [][ ( /\ StepCalled
          /\ call'.action \in NodeIds
          /\ A[current_state.to][call'.action] = 1 )
        => ( /\ call'.raised = "none"
             /\ call'.reward = Zero
             /\ ~call'.acc_some
             /\ call'.obs =
                  states[edge_to_index[<<current_state.to,
                                         call'.action>>] + 1]
             /\ call'.obs.from = current_state.to
             /\ call'.obs.to = call'.action
             /\ current_state' = call'.obs
             /\ states' = states
             /\ alpha_normal' = alpha_normal ) ]_vars

\* a legal traversal has returned and moved the current edge off the start edge
C2_Witness ==
    /\ call.op = "step"
    /\ call.raised = "none"
    /\ call.action \in NodeIds
    /\ call.fired = {"traverse"}
    /\ call.reward = Zero
    /\ current_state.to = call.action
    /\ current_state # states[StartIndex + 1]

\* C3: the terminal action sets terminate_episode without changing the current
\* edge, the state table or any weight, returns reward 0 and done, and every
\* later step that returns before the next reset reports done.
C3_TerminalAction ==
    [][ /\ ( StepCalled /\ call'.action = TerminalAction )
           => ( /\ call'.raised = "none"
                /\ terminate_episode'
                /\ current_state' = current_state
                /\ call'.obs = current_state
                /\ states' = states
                /\ alpha_normal' = alpha_normal
                /\ alpha_reduce' = alpha_reduce
                /\ normalized_alphas' = normalized_alphas
                /\ call'.reward = Zero
                /\ call'.done )
        /\ ( StepCalled /\ terminate_episode /\ call'.raised = "none" )
           => ( call'.done /\ terminate_episode' ) ]_vars

\* a step after the terminal action, past the budget, has reported done
C3_Witness ==
    /\ call.op = "step"
    /\ call.raised = "none"
    /\ call.action # TerminalAction
    /\ terminate_episode
    /\ step_count > max_ep_len
    /\ call.done

\* C4: a step that returns adds exactly 1 to step_count whatever the action,
\* and its done flag is true exactly when the episode was terminated or the
\* step count, after the addition, equals max_ep_len.
C4_DoneAndStepCount ==
    [][ ( StepCalled /\ call'.raised = "none" )
        => ( /\ step_count' = step_count + 1
             /\ (call'.done <=> (terminate_episode'
                                 \/ step_count' = max_ep_len)) ) ]_vars

\* a mutation step has returned past the budget with done false
C4_Witness ==
    /\ call.op = "step"
    /\ call.raised = "none"
    /\ call.fired \cap {"increase", "decrease"} # {}
    /\ step_count = max_ep_len + 1
    /\ ~terminate_episode
    /\ ~call.done

\* C5: for every action id of the action space exactly one of the four
\* branches of _perform_action fires.
C5_ExactlyOneBranch ==
    (call.op = "step" /\ call.action \in Actions)
    => Cardinality(call.fired) = 1

\* a decrease action, rebased to an operation index, fired the decrease branch
C5_Witness ==
    /\ call.op = "step"
    /\ call.raised = "none"
    /\ call.action \in (n_nodes + NOps) .. (n_nodes + 2 * NOps - 1)
    /\ call.fired = {"decrease"}

\* C6: scale_reward(b, a) is 0 for a = b, 4(a-b)/(1-b) for a > b, within
\* [0, 4], and -0.1 + 0.1 a/b for a < b, within [-0.1, 0].
C6_ScaleReward ==
    fn_out.kind = "scale_reward"
    => LET b == fn_in.baseline
           a == fn_in.accuracy
           v == fn_out.value
       IN /\ fn_out.raised = "none"
          /\ (a = b) => v = Zero
          /\ RLt(b, a) => /\ v = RDiv(RMul(<<4, 1>>, RSub(a, b)),
                                      RSub(One, b))
                          /\ RLe(Zero, v) /\ RLe(v, <<4, 1>>)
          /\ RLt(a, b) => /\ v = RAdd(<<-1, 10>>,
                                      RMul(<<1, 10>>, RDiv(a, b)))
                          /\ RLe(<<-1, 10>>, v) /\ RLe(v, Zero)

\* baseline 0.5 and accuracy 0.75 gave 2.0
C6_Witness ==
    /\ fn_out.kind = "scale_reward"
    /\ fn_in.baseline = <<1, 2>>
    /\ fn_in.accuracy = <<3, 4>>
    /\ fn_out.value = <<2, 1>>

\* C7: right after a call of increase_op or decrease_op that returned True the
\* normalized weights of the edge it changed, normalized_alphas[row][edge], sum
\* to 1.
C7_RowSumsToOneAfterCall ==
    [][ ( /\ call'.op \in {"increase_op", "decrease_op"}
          /\ call'.update = "True" )
        => \A k \in AlphaKeys :
              normalized_alphas'[k] # normalized_alphas[k]
                 => RowSum(normalized_alphas'[k]) = One ]_vars

\* C8: after a mutation no normalized weight of the mutated edge is exactly 0
\* or 1, and every value the logarithm is applied to is above 0.
C8_NoZeroNoOne ==
    (fn_out.kind = "op" /\ fn_out.ret)
    => \A k \in 1 .. NOps :
          /\ RLt(Zero, fn_out.normalized[k])
          /\ RLt(fn_out.normalized[k], One)
          /\ RLt(Zero, fn_out.view[k])

\* an edge with a weight of exactly 0 and one of exactly 1 was mutated
C8_Witness ==
    /\ fn_out.kind = "op"
    /\ fn_out.ret
    /\ \E k \in 1 .. NOps : fn_in.edge[k] = Zero
    /\ \E k \in 1 .. NOps : fn_in.edge[k] = One

\* C9: increase_op on an operation at 0.99 does not leave its normalized
\* weight above 0.99.
C9_IncreaseAtCeiling ==
    ( /\ fn_out.kind = "op"
      /\ fn_in.increase
      /\ fn_in.edge[fn_in.op_idx] = <<99, 100>> )
    => RLe(fn_out.normalized[fn_in.op_idx], <<99, 100>>)

\* an increase at 0.99 was clamped, written, and reported True
C9_Witness ==
    /\ fn_out.kind = "op"
    /\ fn_in.increase
    /\ fn_in.edge[fn_in.op_idx] = <<99, 100>>
    /\ fn_out.ret
    /\ fn_out.written
    /\ fn_out.view[fn_in.op_idx] = One

\* C10 (as stated): decrease_op on an operation at exactly 0.0 changes nothing
\* and returns False.
C10_DecreaseAtZeroIsNoOp ==
    ( /\ fn_out.kind = "op"
      /\ ~fn_in.increase
      /\ fn_in.edge[fn_in.op_idx] = Zero )
    => ( /\ ~fn_out.ret
         /\ ~fn_out.written
         /\ fn_out.raw = fn_in.edge
         /\ fn_out.normalized = fn_in.edge )

\* C11 (as stated): an increase action on the current edge leaves the
\* normalized weight of the targeted primitive, observed after the rebuild,
\* greater than it was before the action, with the edge's weights summing to 1.
C11_IncreaseRaisesWeight ==
    (fn_out.kind = "op" /\ fn_in.increase)
    => /\ RLt(fn_in.edge[fn_in.op_idx], fn_out.normalized[fn_in.op_idx])
       /\ RowSum(fn_out.normalized) = One

MutationActions == n_nodes .. (n_nodes + 2 * NOps - 1)

\* the normalized weights of edge k are those a rebuild gives: the softmax of
\* the raw weights of the cell that cell_type selects
InStep(k) ==
    normalized_alphas[k] =
        Softmax(IF cell_type = "normal" THEN alpha_normal[k]
                ELSE alpha_reduce[k])

\* the tables update_states writes
Tables == <<normalized_alphas, states, edge_to_index, edge_to_alpha>>

\* C12: when increase_op or decrease_op returns False the step has changed
\* neither the raw weights nor the normalized view nor the state table and has
\* not rebuilt; a step rebuilds the state table only when the operation
\* returned True.
C12_FalseMeansUntouched ==
    [][ StepCalled
        => /\ (call'.update = "False")
                => ( /\ ~call'.rebuilt
                     /\ alpha_normal' = alpha_normal
                     /\ alpha_reduce' = alpha_reduce
                     /\ Tables' = Tables )
           /\ call'.rebuilt => call'.update = "True" ]_vars

\* an operation returned False and the step returned without a rebuild
C12_Witness ==
    /\ call.op = "step"
    /\ call.raised = "none"
    /\ call.update = "False"
    /\ ~call.rebuilt
    /\ call.acc_some

\* the directed edges of the cell
LegalEdges == {e \in NodeIds \X NodeIds : A[e[1]][e[2]] = 1}

\* C13: after any rebuild edge_to_index is defined on exactly the directed
\* edges of the cell, the two directions of every edge hold two indices that
\* differ by exactly 1, no two directed edges share an index, and the row at
\* an edge's index is the row of that edge.
C13_PairedDistinctIndices ==
    /\ DOMAIN edge_to_index = LegalEdges
    /\ \A e \in LegalEdges :
          /\ Abs(edge_to_index[e] - edge_to_index[<<e[2], e[1]>>]) = 1
          /\ edge_to_index[e] \in 0 .. (Len(states) - 1)
          /\ states[edge_to_index[e] + 1].from = e[1]
          /\ states[edge_to_index[e] + 1].to = e[2]
    /\ \A e, f \in LegalEdges :
          (edge_to_index[e] = edge_to_index[f]) => e = f

\* a step has rebuilt the tables after a mutation
C13_Witness ==
    /\ call.op = "step"
    /\ call.rebuilt
    /\ call.raised = "none"
    /\ alpha_normal # meta_state.alpha_normal
    /\ Cardinality(DOMAIN edge_to_index) = Len(states)

\* C14: update_states called right after a call that rebuilt the tables, with
\* no weight changed in between, leaves the state table, edge_to_index, edge_to_alpha and the
\* normalized weights as they were, and changes no weight.
C14_RebuildIdempotent ==
    [][ (call'.op = "update_states" /\ call.rebuilt)
        => ( /\ Tables' = Tables
             /\ alpha_normal' = alpha_normal
             /\ alpha_reduce' = alpha_reduce
             /\ current_state' = current_state ) ]_vars

\* update_states was called on the tables that set_task or reset rebuilt, no
\* step made and no weight changed since
C14_Witness ==
    /\ call.op = "update_states"
    /\ call.raised = "none"
    /\ calls = 0
    /\ meta_state.set
    /\ alpha_normal = meta_state.alpha_normal
    /\ Len(states) = 2 * Len(EdgeList)
    /\ \A k \in AlphaKeys : InStep(k)

\* C15: the index of every (from, to) pair is the same after every rebuild,
\* and an increase or decrease step that returns does not move the agent: its
\* observation has the (from, to) of the current edge before the action and is
\* that edge's row of the table as the step leaves it.
C15_MutationKeepsEdge ==
    [][ /\ edge_to_index' = edge_to_index
        /\ ( /\ StepCalled
              /\ call'.action \in MutationActions
              /\ call'.raised = "none" )
           => ( /\ call'.obs.from = current_state.from
                /\ call'.obs.to = current_state.to
                /\ call'.obs =
                     states'[edge_to_index'[<<current_state.from,
                                              current_state.to>>] + 1]
                /\ call'.obs.ops =
                     normalized_alphas'[edge_to_alpha'[<<current_state.from,
                                                         current_state.to>>]]
                /\ current_state' = call'.obs ) ]_vars

\* a mutation step made away from the start edge has rebuilt the table and
\* returned the rebuilt row of the edge
C15_Witness ==
    /\ call.op = "step"
    /\ call.raised = "none"
    /\ call.rebuilt
    /\ edge_to_index[<<current_state.from, current_state.to>>] > 0
    /\ current_state =
         states[edge_to_index[<<current_state.from, current_state.to>>] + 1]
    /\ current_state.ops # Softmax(meta_state.alpha_normal[
                               edge_to_alpha[<<current_state.from,
                                               current_state.to>>]])

\* C16: with cell_type "reduce" every increase or decrease action ends in
\* NotImplementedError with the weights, the tables, the current edge, the
\* step counter, the baseline and the termination flag unchanged; traversal
\* and terminal actions return.
C16_ReduceMutationFails ==
    [][ (StepCalled /\ cell_type = "reduce")
        => /\ (call'.action \in MutationActions)
                => ( /\ call'.raised = "NotImplementedError"
                     /\ alpha_normal' = alpha_normal
                     /\ alpha_reduce' = alpha_reduce
                     /\ Tables' = Tables
                     /\ current_state' = current_state
                     /\ step_count' = step_count
                     /\ baseline_acc' = baseline_acc
                     /\ terminate_episode' = terminate_episode )
           /\ (call'.action \notin MutationActions)
                => ( call'.raised = "none" /\ step_count' = step_count + 1 )
      ]_vars

\* a decrease action on a reduce cell has raised after a traversal returned
C16_Witness ==
    /\ cell_type = "reduce"
    /\ call.op = "step"
    /\ call.action \in MutationActions
    /\ call.fired = {"decrease"}
    /\ call.raised = "NotImplementedError"
    /\ step_count = 1

\* C17 (as stated): reset with no active task ends in reset's AssertionError
\* for every test_env that is not test mode, the constructor default included.
C17_ResetWithoutTaskAsserts ==
    ( /\ call.op = "reset"
      /\ current_task = "None"
      /\ test_env \in {"None", "False"} )
    => call.raised = "AssertionError"

\* C18 (as stated): in test mode reset, set_task and the increase / decrease
\* steps, which unpack two values from compute_reward, complete.
C18_TestModeCompletes ==
    ( /\ test_env = "True"
      /\ cell_type = "normal"
      /\ \/ call.op = "set_task"
         \/ (call.op = "reset" /\ meta_state.set)
         \/ (call.op = "step" /\ call.action \in MutationActions) )
    => call.raised = "none"

\* C19: after every reset that returns, whatever steps preceded it, the
\* current edge is the row at index 0 of the state table, the directed edge
\* (0, 2), step_count is 0 and the episode is not terminated.
C19_ResetStartsAtIndexZero ==
    (call.op \in {"reset", "set_task"} /\ call.raised = "none")
    => /\ current_state = states[1]
       /\ call.obs = states[1]
       /\ current_state_index = 0
       /\ current_state.from = 0
       /\ current_state.to = 2
       /\ step_count = 0
       /\ ~terminate_episode

\* a reset on an active task has returned with the weights of meta_state loaded
C19_Witness ==
    /\ call.op = "reset"
    /\ call.raised = "none"
    /\ current_task = "task"
    /\ alpha_normal = meta_state.alpha_normal
    /\ calls = 0
    /\ step_count = 0

\* C20: the current edge is always a legal edge of A: never a self-loop and
\* never between the two input nodes 0 and 1.
C20_CurrentEdgeLegal ==
    /\ A[current_state.from][current_state.to] = 1
    /\ current_state.from # current_state.to
    /\ {current_state.from, current_state.to} # {0, 1}

\* a traversal has moved the agent from an intermediate node to input node 1
C20_Witness ==
    /\ call.op = "step"
    /\ call.raised = "none"
    /\ call.fired = {"traverse"}
    /\ call.reward = Zero
    /\ current_state.from >= 2
    /\ current_state.to = 1

\* C22 (as stated): current_state_index is the state-table index of the
\* current edge: states[current_state_index] has the (from, to) of
\* current_state.
C22_IndexTracksEdge ==
    /\ states[current_state_index + 1].from = current_state.from
    /\ states[current_state_index + 1].to = current_state.to

\* C24: every reward a step returns lies in reward_range, [-0.1, 4].
C24_RewardInRange ==
    (call.op = "step" /\ call.raised = "none")
    => /\ RLe(<<-1, 10>>, call.reward)
       /\ RLe(call.reward, <<4, 1>>)

\* a mutation step scored an accuracy below the baseline and returned the
\* lower end of the range
C24_Witness ==
    /\ call.op = "step"
    /\ call.raised = "none"
    /\ call.acc_some
    /\ call.fired \cap {"increase", "decrease"} # {}
    /\ call.reward = <<-1, 10>>

\* C25 (as stated): once a step has returned done = True, the next step made
\* before a reset also returns done = True, past the step budget too.
C25_DoneMonotone ==
    [][ ( /\ StepCalled
          /\ call.op = "step"
          /\ call.raised = "none"
          /\ call.done
          /\ call'.raised = "none" )
        => call'.done ]_vars

\* C26: after any rebuild edge_to_index and edge_to_alpha are defined on
\* exactly the pairs (a, b) with A[a][b] = 1, both directions of an edge name
\* the same weight row and position, which exists, and every index is a row of
\* the table: no lookup of a legal traversal or of a mutation misses.
C26_KeysAreLegalEdges ==
    /\ DOMAIN edge_to_index = LegalEdges
    /\ DOMAIN edge_to_alpha = LegalEdges
    /\ \A e \in LegalEdges :
          /\ edge_to_alpha[e] \in AlphaKeys
          /\ edge_to_alpha[e] \in DOMAIN alpha_normal
          /\ edge_to_alpha[e] = edge_to_alpha[<<e[2], e[1]>>]
          /\ (edge_to_index[e] + 1) \in DOMAIN states

\* after a traversal looked up its edge, an increase looked up the weights of
\* the edge it arrived at
C26_Witness ==
    /\ call.op = "step"
    /\ call.raised = "none"
    /\ call.fired = {"increase"}
    /\ call.rebuilt
    /\ current_state.from >= 2
    /\ edge_to_alpha[<<current_state.from, current_state.to>>] \in AlphaKeys

\* the traversal branch run with action t on the locals L
TraverseFrom(L, t) ==
    TraverseBranch([L EXCEPT !.action = t, !.reward = Zero, !.fired = {}])

\* the current edge held in the locals L
EdgeOf(L) == <<L.current_state.from, L.current_state.to>>

\* C27: after a reset every directed edge of the cell is the current edge
\* after at most two legal traversal actions, and in every state the action
\* equal to the current from-node is legal and reverses the current edge.
C27_EveryEdgeReachable ==
    /\ (call.op \in {"reset", "set_task"} /\ call.raised = "none")
       => \A e \in LegalEdges :
            \/ e = <<current_state.from, current_state.to>>
            \/ \E t1 \in NodeIds :
                 /\ A[current_state.to][t1] = 1
                 /\ \E L1 \in {TraverseFrom(Locals(t1), t1)} :
                      \/ EdgeOf(L1) = e
                      \/ \E t2 \in NodeIds :
                           /\ A[L1.next_node][t2] = 1
                           /\ EdgeOf(TraverseFrom(L1, t2)) = e
    /\ \E L \in {TraverseFrom(Locals(current_state.from),
                              current_state.from)} :
         /\ A[current_state.to][current_state.from] = 1
         /\ EdgeOf(L) = <<current_state.to, current_state.from>>
         /\ L.reward = Zero

\* two legal traversals from the start edge have reached the edge (1, 2)
C27_Witness ==
    /\ call.op = "step"
    /\ call.raised = "none"
    /\ call.fired = {"traverse"}
    /\ call.reward = Zero
    /\ calls = 2
    /\ step_count = 2
    /\ current_state.from = 1
    /\ current_state.to = 2

\* C28: for every baseline and accuracy in [0, 1] scale_reward returns
\* without dividing by zero: the divisor 1 - baseline is used only when
\* accuracy > baseline, the divisor baseline only when accuracy < baseline.
C28_NoDivisionByZero ==
    fn_out.kind = "scale_reward"
    => /\ fn_out.raised = "none"
       /\ RLt(fn_in.baseline, fn_in.accuracy)
            => RSub(One, fn_in.baseline) # Zero
       /\ RLt(fn_in.accuracy, fn_in.baseline) => fn_in.baseline # Zero
       /\ (fn_in.accuracy = fn_in.baseline) => fn_out.value = Zero

\* baseline and accuracy both 1, where the upper segment would divide by 0
C28_Witness ==
    /\ fn_out.kind = "scale_reward"
    /\ fn_in.baseline = One
    /\ fn_in.accuracy = One
    /\ fn_out.raised = "none"

\* C30 (as stated): after a decrease_op that returns True on an operation
\* whose normalized weight p is in (0, 1), the operation's normalized weight
\* after the rebuild is not greater than p.
C30_DecreaseNeverRaises ==
    ( /\ fn_out.kind = "op"
      /\ ~fn_in.increase
      /\ fn_out.ret
      /\ RLt(Zero, fn_in.edge[fn_in.op_idx])
      /\ RLt(fn_in.edge[fn_in.op_idx], One) )
    => RLe(fn_out.normalized[fn_in.op_idx], fn_in.edge[fn_in.op_idx])

\* C21: compute_reward and scale_reward leave baseline_acc alone, so the
\* reward of a step is scaled against the baseline the step found; a step that
\* computed an accuracy above 0 leaves the baseline equal to it, any other
\* step leaves the baseline unchanged; an evaluation that yields the baseline
\* again gets reward 0.
C21_BaselineFollowsAccuracy ==
    [][ StepCalled
        => LET scored == call'.raised = "none" /\ call'.acc_some
           IN /\ scored
                   => call'.reward =
                        ScaleReward(baseline_acc, call'.acc).value
              /\ (scored /\ call'.acc = baseline_acc)
                   => call'.reward = Zero
              /\ (scored /\ RLt(Zero, call'.acc))
                   => baseline_acc' = call'.acc
              /\ ~(scored /\ RLt(Zero, call'.acc))
                   => baseline_acc' = baseline_acc ]_vars

\* the second of two mutation steps yielded the accuracy that is the baseline
\* and got reward 0
C21_Witness ==
    /\ call.op = "step"
    /\ call.raised = "none"
    /\ call.acc_some
    /\ step_count = 2
    /\ RLt(Zero, call.acc)
    /\ call.acc = baseline_acc
    /\ call.reward = Zero

\* C23 (as stated): once a step has recorded a best accuracy, a later step
\* that records no new best leaves the values get_max_alphas returns as they
\* were.
C23_MaxAlphasIsSnapshot ==
    [][ ( /\ StepCalled
          /\ max_alphas.by = "step"
          /\ max_alphas' = max_alphas
          /\ max_acc' = max_acc )
        => GetMaxAlphas' = GetMaxAlphas ]_vars

====
